---- MODULE Spec2Model ----
(***************************************************************************)
(* Model of ethers-contract-abigen/src/lib.rs: the Abigen builder, the     *)
(* ContractBindings writer and the MultiAbigen batch generator with its    *)
(* ensure_consistent_bindings oracle.                                      *)
(*                                                                         *)
(* Strings are sequences of one-character strings, so that to_snake_case   *)
(* and the byte-wise ordering of Vec<String>::sort can be computed.        *)
(* A file's content is a sequence of chunks (header, generated source of   *)
(* one contract, one export line, a line break).                           *)
(***************************************************************************)
EXTENDS Integers, Sequences, FiniteSets, TLC

\* Largest number of Abigen values alive at once (staged by the caller plus
\* held by the batch).
MaxUnits == 2

----------------------------------------------------------------------------
(* Characters and strings *)

\* Byte value of each character that occurs in a contract name or export line.
Code(c) ==
    CASE c = "pub mod " -> 0
      [] c = ".json" -> 46
      [] c = "1" -> 49
      [] c = ";" -> 59
      [] c = "A" -> 65
      [] c = "C" -> 67
      [] c = "_" -> 95
      [] c = "a" -> 97
      [] c = "b" -> 98
      [] c = "c" -> 99

IsUpper(c) == c \in {"A", "C"}
IsLower(c) == c \in {"a", "b", "c"}
IsSeparator(c) == c \in {"_", "-", " "}
ToLower(c) == CASE c = "A" -> "a" [] c = "C" -> "c" [] OTHER -> c

\* Inflector's snake case: a separator character becomes one "_" (dropped at
\* the start of a word), an upper-case letter that has a lower-case neighbour
\* starts a new word, every letter is lower-cased, digits pass through.
RECURSIVE SnakeFrom(_, _, _)
SnakeFrom(s, i, first) ==
    IF i > Len(s) THEN <<>>
    ELSE LET c == s[i]
             prevLower == i > 1 /\ IsLower(s[i - 1])
             nextLower == i < Len(s) /\ IsLower(s[i + 1])
         IN  IF IsSeparator(c)
             THEN (IF first THEN <<>> ELSE <<"_">>) \o SnakeFrom(s, i + 1, TRUE)
             ELSE IF ~first /\ IsUpper(c) /\ (prevLower \/ nextLower)
             THEN <<"_", ToLower(c)>> \o SnakeFrom(s, i + 1, FALSE)
             ELSE <<ToLower(c)>> \o SnakeFrom(s, i + 1, FALSE)

ToSnakeCase(s) == SnakeFrom(s, 1, TRUE)

\* Byte-wise lexicographic order of two strings (Rust's Ord for String).
RECURSIVE StrLess(_, _)
StrLess(a, b) ==
    IF b = <<>> THEN FALSE
    ELSE IF a = <<>> THEN TRUE
    ELSE IF Code(Head(a)) # Code(Head(b)) THEN Code(Head(a)) < Code(Head(b))
    ELSE StrLess(Tail(a), Tail(b))

StrLeq(a, b) == a = b \/ StrLess(a, b)

\* Contract names the caller may use: "AbC", "ab_c" (same module name as
\* "AbC") and "AbC1" (module name "ab_c1", which extends "ab_c" by a digit).
ContractNames ==
    { <<"A", "b", "C">>, <<"a", "b", "_", "c">>, <<"A", "b", "C", "1">> }

----------------------------------------------------------------------------
(* ABI sources *)

\* Raw source strings handed to Abigen::new: an inline JSON ABI with one
\* method f, an inline JSON ABI whose entry is malformed, and a string that
\* is no recognised source.
RawSources ==
    { <<"[", "f", "]">>, <<"[", "!", "]">>, <<"?">> }

\* Source::from_str: the classification of a raw source string.
ParseSource(raw) ==
    IF raw # <<>> /\ Head(raw) \in {"[", "{"}
    THEN [ok |-> TRUE, source |-> raw]
    ELSE [ok |-> FALSE, source |-> <<>>]

Signatures == {"f"}
Aliases == {"x"}
NoAlias == "-"
EmptyAliases == [s \in Signatures |-> NoAlias]

\* Abigen::new
AbigenNew(contract_name, abi_source) ==
    LET p == ParseSource(abi_source)
    IN  IF ~p.ok THEN [ok |-> FALSE, abigen |-> <<>>]
        ELSE [ok |-> TRUE,
              abigen |-> [contract_name |-> contract_name,
                          abi_source |-> p.source,
                          method_aliases |-> EmptyAliases,
                          rustfmt |-> TRUE]]

\* Abigen::add_method_alias
AddMethodAliasTo(abi, signature, alias) ==
    [abi EXCEPT !.method_aliases = [@ EXCEPT ![signature] = alias]]

\* Abigen::rustfmt
SetRustfmt(abi, b) == [abi EXCEPT !.rustfmt = b]

\* Context::from_abigen(..).expand().into_tokens(): the entries of the ABI
\* document, each under its alias if it has one and under its own name
\* otherwise; a malformed entry is an error.
NoTokens == [contract |-> <<>>, methods |-> <<>>]
Expand(abi) ==
    LET doc == SubSeq(abi.abi_source, 2, Len(abi.abi_source) - 1)
    IN  IF \E i \in 1..Len(doc) : doc[i] \notin Signatures
        THEN [ok |-> FALSE, tokens |-> NoTokens]
        ELSE [ok |-> TRUE,
              tokens |-> [contract |-> abi.contract_name,
                          methods |-> [i \in 1..Len(doc) |->
                              IF abi.method_aliases[doc[i]] # NoAlias
                              THEN abi.method_aliases[doc[i]]
                              ELSE doc[i]]]]

\* Abigen::generate
Generate(abi) ==
    LET e == Expand(abi)
    IN  [ok |-> e.ok, bindings |-> [tokens |-> e.tokens, rustfmt |-> abi.rustfmt]]

----------------------------------------------------------------------------
(* File contents *)

Chunk(kind, formatted, tokens, line) ==
    [kind |-> kind, formatted |-> formatted, tokens |-> tokens, line |-> line]

\* b"/// This module contains all the autogenerated abigen! contract bindings\n"
Header == <<Chunk("header", FALSE, NoTokens, <<>>)>>
\* tokens.to_string()
RawText(tokens) == <<Chunk("source", FALSE, tokens, <<>>)>>
\* rustfmt::format: the formatted text, or an error when rustfmt is missing
\* or fails.
RustfmtFormat(raw, fmtOk) ==
    IF fmtOk
    THEN [ok |-> TRUE, text |-> [i \in 1..Len(raw) |-> [raw[i] EXCEPT !.formatted = TRUE]]]
    ELSE [ok |-> FALSE, text |-> <<>>]

\* A writer that hands the formatter's result on as it is.
UnwrapOrPropagate(r, default) == r
\* Result::unwrap_or
UnwrapOr(r, default) == IF r.ok THEN r ELSE [ok |-> TRUE, text |-> default]

\* The `source` block of ContractBindings::write.
SourceText(bindings, fmtOk) ==
    LET raw == RawText(bindings.tokens)
    IN  IF bindings.rustfmt
        THEN UnwrapOr(RustfmtFormat(raw, fmtOk), raw)
        ELSE [ok |-> TRUE, text |-> raw]

\* ContractBindings::write into a sink that accepts the bytes or fails.
BindingsWrite(bindings, fmtOk, sinkOk) ==
    LET s == SourceText(bindings, fmtOk)
    IN  IF ~s.ok THEN [ok |-> FALSE, err |-> "format", bytes |-> <<>>]
        ELSE IF ~sinkOk THEN [ok |-> FALSE, err |-> "io", bytes |-> <<>>]
        ELSE [ok |-> TRUE, err |-> "none", bytes |-> s.text]

----------------------------------------------------------------------------
(* The module directory and MultiAbigen::write_to_module *)

Absent == <<Chunk("absent", FALSE, NoTokens, <<>>)>>

\* format!("{}.rs", name) and the path "mod.rs"
FileName(name) == name \o <<".rs">>
ModFile == <<"m", "o", "d", ".rs">>

FileNames == {ModFile} \cup {FileName(ToSnakeCase(n)) : n \in ContractNames}
EmptyDir == [f \in FileNames |-> Absent]
Exists(dir, f) == dir[f] # Absent
Files(dir) == {f \in FileNames : Exists(dir, f)}
Put(dir, f, content) == [dir EXCEPT ![f] = content]

\* format!("pub mod {};", name)
ExportLine(name) == <<"pub mod ">> \o name \o <<";">>

\* Where an I/O failure strikes a call of write_to_module: at 0 create_dir_all,
\* at k the file of the k-th unit, at Len+1 the write of mod.rs; File::create
\* fails ("create") or write_all fails on the truncated file ("write").
NoIo == [at |-> -1, kind |-> "none"]
IoPoints(n, single) ==
    {NoIo} \cup {[at |-> 0, kind |-> "create"]}
           \cup {[at |-> k, kind |-> kd] :
                    k \in (IF single THEN {} ELSE 1..n) \cup {n + 1},
                    kd \in {"create", "write"}}
IoAt(io, k) == IF io.at = k THEN io.kind ELSE "ok"

\* ContractBindings::write_to_file
WriteToFile(bindings, dir, path, fmtOk, io) ==
    IF io = "create" THEN [ok |-> FALSE, dir |-> dir]
    ELSE LET w == BindingsWrite(bindings, fmtOk, io # "write")
         IN  IF w.ok THEN [ok |-> TRUE, dir |-> Put(dir, path, w.bytes)]
             ELSE [ok |-> FALSE, dir |-> Put(dir, path, <<>>)]

\* fs::write
FsWrite(dir, path, content, io) ==
    IF io = "create" THEN [ok |-> FALSE, dir |-> dir]
    ELSE IF io = "write" THEN [ok |-> FALSE, dir |-> Put(dir, path, <<>>)]
    ELSE [ok |-> TRUE, dir |-> Put(dir, path, content)]

\* Vec<String>::sort: stable, ascending in the order of String.
RECURSIVE InsertSorted(_, _)
InsertSorted(sorted, x) ==
    IF sorted = <<>> THEN <<x>>
    ELSE IF StrLess(x, Head(sorted)) THEN <<x>> \o sorted
    ELSE <<Head(sorted)>> \o InsertSorted(Tail(sorted), x)

RECURSIVE SortAll(_, _)
SortAll(done, rest) ==
    IF rest = <<>> THEN done ELSE SortAll(InsertSorted(done, Head(rest)), Tail(rest))

\* The lines left in the order of the batch.
SortModulesNot(modules) == modules
\* modules.sort()
SortModules(modules) == SortAll(<<>>, modules)

\* modules.join("\n") as chunks
RECURSIVE JoinLines(_)
JoinLines(modules) ==
    IF modules = <<>> THEN <<>>
    ELSE IF Len(modules) = 1 THEN <<Chunk("line", FALSE, NoTokens, modules[1])>>
    ELSE <<Chunk("line", FALSE, NoTokens, modules[1]),
           Chunk("newline", FALSE, NoTokens, <<>>)>> \o JoinLines(Tail(modules))

\* The loop state of write_to_module.
LoopStart(dir) ==
    [dir |-> dir, contracts_mod |-> Header, modules |-> <<>>, arts |-> <<>>,
     ok |-> TRUE, err |-> "none", k |-> 0]

\* A loop that would still write mod.rs for the units generated so far.
OnGenerateErrorWriteMod(st, i) ==
    [st EXCEPT !.ok = FALSE, !.err = "generate", !.k = i,
               !.dir = Put(st.dir, ModFile, st.contracts_mod \o JoinLines(st.modules))]
\* `abi.generate()?` on an error: the call returns at once.
OnGenerateError(st, i) ==
    [st EXCEPT !.ok = FALSE, !.err = "generate", !.k = i]

\* The `for abi in self.abigens` loop from the i-th unit on.
RECURSIVE WriteLoop(_, _, _, _, _, _)
WriteLoop(abigens, single_file, i, st, fmtOk, io) ==
    IF i > Len(abigens) THEN st
    ELSE LET abi == abigens[i]
             name == ToSnakeCase(abi.contract_name)
             g == Generate(abi)
             arts == Append(st.arts, g.bindings.rustfmt)
         IN  IF ~g.ok THEN OnGenerateError(st, i)
             ELSE IF single_file
             THEN LET w == BindingsWrite(g.bindings, fmtOk, TRUE)
                  IN  IF ~w.ok
                      THEN [st EXCEPT !.ok = FALSE, !.err = w.err, !.k = i]
                      ELSE WriteLoop(abigens, single_file, i + 1,
                               [st EXCEPT !.contracts_mod = @ \o w.bytes,
                                          !.arts = arts],
                               fmtOk, io)
             ELSE LET w == WriteToFile(g.bindings, st.dir, FileName(name),
                                       fmtOk, IoAt(io, i))
                  IN  IF ~w.ok
                      THEN [st EXCEPT !.ok = FALSE, !.err = "io", !.k = i,
                                      !.dir = w.dir]
                      ELSE WriteLoop(abigens, single_file, i + 1,
                               [st EXCEPT !.dir = w.dir, !.arts = arts,
                                          !.modules = Append(@, ExportLine(name))],
                               fmtOk, io)

\* MultiAbigen::write_to_module
WriteToModuleTo(batch, dir, fmtOk, io) ==
    IF IoAt(io, 0) # "ok"
    THEN [LoopStart(dir) EXCEPT !.ok = FALSE, !.err = "io"]
    ELSE LET st == WriteLoop(batch.abigens, batch.single_file, 1,
                             LoopStart(dir), fmtOk, io)
             n == Len(batch.abigens)
             contracts_mod ==
                 IF st.modules # <<>>
                 THEN st.contracts_mod \o JoinLines(SortModules(st.modules))
                 ELSE st.contracts_mod
             w == FsWrite(st.dir, ModFile, contracts_mod, IoAt(io, n + 1))
         IN  IF ~st.ok THEN st
             ELSE IF ~w.ok
             THEN [st EXCEPT !.ok = FALSE, !.err = "io", !.k = n + 1, !.dir = w.dir]
             ELSE [st EXCEPT !.dir = w.dir, !.contracts_mod = contracts_mod]

----------------------------------------------------------------------------
(* MultiAbigen: construction and the consistency check *)

NoMulti == [exists |-> FALSE, single_file |-> FALSE, abigens |-> <<>>]

\* A map that leaves the unit's flag as it is.
ForceRustfmtKeep(abi) == abi
\* `abi.rustfmt(true)` in from_abigen's map
ForceRustfmt(abi) == SetRustfmt(abi, TRUE)

\* MultiAbigen::from_abigen
FromAbigen(abis) ==
    [exists |-> TRUE, single_file |-> FALSE,
     abigens |-> [i \in 1..Len(abis) |-> ForceRustfmt(abis[i])]]

\* A collection that skips the errors and keeps the values.
CollectOks(results) ==
    [ok |-> TRUE,
     values |-> LET keep == SelectSeq(results, LAMBDA r : r.ok)
                IN  [i \in 1..Len(keep) |-> keep[i].abigen]]
\* collect::<Result<Vec<_>>>(): the first error, or every value.
CollectResults(results) ==
    IF \E i \in 1..Len(results) : ~results[i].ok
    THEN [ok |-> FALSE, values |-> <<>>]
    ELSE [ok |-> TRUE, values |-> [i \in 1..Len(results) |-> results[i].abigen]]

\* MultiAbigen::new
MultiAbigenNew(abis) ==
    LET c == CollectResults([i \in 1..Len(abis) |-> AbigenNew(abis[i][1], abis[i][2])])
    IN  IF ~c.ok THEN [ok |-> FALSE, multi |-> NoMulti]
        ELSE [ok |-> TRUE, multi |-> FromAbigen(c.values)]

\* The directories from_json_files may scan: at most MaxUnits files
\* <contract name>.json, each holding one of the raw sources.
JsonFileName(stem) == stem \o <<".json">>
JsonDirs ==
    UNION {[{JsonFileName(n) : n \in S} -> RawSources] :
              S \in {T \in SUBSET ContractNames : Cardinality(T) <= MaxUnits}}

\* file.file_stem()
FileStem(path) == SubSeq(path, 1, Len(path) - 1)

\* util::json_files(dir): the .json files of dir, in the order the
\* filesystem enumerates them.
JsonFiles(dir, order) == order

\* MultiAbigen::from_json_files; read_to_string fails for the file at position
\* failAt of the scan (0: for none).
FromJsonFiles(dir, order, failAt) ==
    LET files == JsonFiles(dir, order)
        abis == [i \in 1..Len(files) |-> <<FileStem(files[i]), dir[files[i]]>>]
        r == MultiAbigenNew(abis)
    IN  IF failAt \in 1..Len(files)
        THEN [ok |-> FALSE, err |-> "io", multi |-> NoMulti, abis |-> SubSeq(abis, 1, failAt - 1)]
        ELSE [ok |-> r.ok, err |-> IF r.ok THEN "none" ELSE "source",
              multi |-> r.multi, abis |-> abis]

\* A walk over the files of both directories.
FilesToCheckBoth(fresh, existing) == Files(fresh) \cup Files(existing)
\* fs::read_dir(&temp_module): the files the check walks through.
FilesToCheck(fresh, existing) == Files(fresh)

\* A test that finds no file.
IsFileNever(dir, f) == FALSE
\* existing_bindings_file.is_file()
IsFile(dir, f) == Exists(dir, f)

\* A comparison that finds no difference.
ContentDiffersNever(existing, fresh) == FALSE
\* existing_contract_bindings != fresh_bindings
ContentDiffers(existing, fresh) == existing # fresh

\* The `for file in fs::read_dir(..)` loop over the files in enumeration order.
RECURSIVE EnsureLoop(_, _, _, _)
EnsureLoop(order, i, fresh, existing) ==
    IF i > Len(order) THEN TRUE
    ELSE IF ~IsFile(existing, order[i]) THEN FALSE
    ELSE IF ContentDiffers(existing[order[i]], fresh[order[i]]) THEN FALSE
    ELSE EnsureLoop(order, i + 1, fresh, existing)

\* The fresh run of ensure_consistent_bindings into an empty temp directory.
FreshRun(batch, fmtOk) == WriteToModuleTo(batch, EmptyDir, fmtOk, NoIo)

\* Enumeration orders read_dir may produce for a set of files.
Orders(S) ==
    {o \in [1..Cardinality(S) -> S] : \A i, j \in 1..Cardinality(S) : o[i] = o[j] => i = j}

\* MultiAbigen::ensure_consistent_bindings: "true", "false", or "panic" when
\* the fresh run fails (`expect`).
EnsureConsistentBindings(w, dir, order) ==
    IF ~w.ok THEN "panic"
    ELSE IF EnsureLoop(order, 1, w.dir, dir) THEN "true" ELSE "false"

----------------------------------------------------------------------------
(* State *)

VARIABLES
    pending,    \* the Abigen values the caller has built and not yet handed over
    multi,      \* the caller's MultiAbigen, or NoMulti
    fs,         \* the module directory: file name -> content, or Absent
    rustfmtOk,  \* whether a working rustfmt is installed
    written,    \* the batch of the last write_to_module that succeeded on fs
    last        \* the last call and what it returned

vars == <<pending, multi, fs, rustfmtOk, written, last>>

NoWritten == [valid |-> FALSE, batch |-> NoMulti]

Rec(op) ==
    [op |-> op, ok |-> TRUE, err |-> "none", ret |-> "none", k |-> 0,
     bytes |-> <<>>, arts |-> <<>>, wasEmpty |-> FALSE, sinkOk |-> TRUE,
     fmtFailed |-> FALSE, pairs |-> <<>>]

\* A directory that already holds a file of an earlier generation.
StaleDir ==
    Put(EmptyDir, FileName(<<"a", "b", "_", "c", "1">>),
        RawText([contract |-> <<"A", "b", "C", "1">>, methods |-> <<"f">>]))

Init ==
    /\ pending = <<>>
    /\ multi = NoMulti
    /\ fs \in {EmptyDir, StaleDir}
    /\ rustfmtOk \in BOOLEAN
    /\ written = NoWritten
    /\ last = Rec("init")

Units == Len(pending) + Len(multi.abigens)
Front(s) == SubSeq(s, 1, Len(s) - 1)
Last(s) == s[Len(s)]

\* Sequences over S of length at most n.
SeqsUpTo(S, n) == UNION {[1..m -> S] : m \in 0..n}

\* let abi = Abigen::new(contract_name, abi_source)
Abigen_new(contract_name, abi_source) ==
    /\ Units < MaxUnits
    /\ LET r == AbigenNew(contract_name, abi_source)
       IN  /\ pending' = IF r.ok THEN Append(pending, r.abigen) ELSE pending
           /\ last' = [Rec("Abigen::new") EXCEPT !.ok = r.ok,
                           !.err = IF r.ok THEN "none" ELSE "source"]
    /\ UNCHANGED <<multi, fs, rustfmtOk, written>>

\* abi.add_method_alias(signature, alias) on the unit built last (where = 0)
\* or on multi.abigens[where].
Abigen_add_method_alias(where, signature, alias) ==
    /\ IF where = 0
       THEN /\ pending # <<>>
            /\ pending' = [pending EXCEPT ![Len(pending)] =
                               AddMethodAliasTo(@, signature, alias)]
            /\ UNCHANGED multi
       ELSE /\ where \in 1..Len(multi.abigens)
            /\ multi' = [multi EXCEPT !.abigens[where] =
                               AddMethodAliasTo(@, signature, alias)]
            /\ UNCHANGED pending
    /\ last' = Rec("Abigen::add_method_alias")
    /\ UNCHANGED <<fs, rustfmtOk, written>>

\* abi.rustfmt(b), on the unit built last or on multi.abigens[where].
Abigen_rustfmt(where, b) ==
    /\ IF where = 0
       THEN /\ pending # <<>>
            /\ pending' = [pending EXCEPT ![Len(pending)] = SetRustfmt(@, b)]
            /\ UNCHANGED multi
       ELSE /\ where \in 1..Len(multi.abigens)
            /\ multi' = [multi EXCEPT !.abigens[where] = SetRustfmt(@, b)]
            /\ UNCHANGED pending
    /\ last' = Rec("Abigen::rustfmt")
    /\ UNCHANGED <<fs, rustfmtOk, written>>

\* abi.generate()?.write(sink) for (a clone of) the unit built last.
ContractBindings_write(sinkOk) ==
    /\ pending # <<>>
    /\ LET g == Generate(Last(pending))
           w == BindingsWrite(g.bindings, rustfmtOk, sinkOk)
       IN  last' = IF ~g.ok
                   THEN [Rec("Abigen::generate") EXCEPT !.ok = FALSE, !.err = "generate"]
                   ELSE [Rec("ContractBindings::write") EXCEPT
                            !.ok = w.ok, !.err = w.err, !.bytes = w.bytes,
                            !.arts = <<g.bindings.rustfmt>>, !.sinkOk = sinkOk,
                            !.fmtFailed = ~RustfmtFormat(RawText(g.bindings.tokens),
                                                         rustfmtOk).ok]
    /\ UNCHANGED <<pending, multi, fs, rustfmtOk, written>>

\* multi = MultiAbigen::from_abigen(pending); last.arts keeps the rustfmt flags
\* the units had when they were handed over.
MultiAbigen_from_abigen ==
    /\ ~multi.exists
    /\ multi' = FromAbigen(pending)
    /\ pending' = <<>>
    /\ last' = [Rec("MultiAbigen::from_abigen") EXCEPT
                   !.arts = [i \in 1..Len(pending) |-> pending[i].rustfmt]]
    /\ UNCHANGED <<fs, rustfmtOk, written>>

\* multi = MultiAbigen::new(abis)?
MultiAbigen_new(abis) ==
    /\ ~multi.exists
    /\ pending = <<>>
    /\ LET r == MultiAbigenNew(abis)
       IN  /\ multi' = r.multi
           /\ last' = [Rec("MultiAbigen::new") EXCEPT !.ok = r.ok, !.pairs = abis,
                           !.err = IF r.ok THEN "none" ELSE "source"]
    /\ UNCHANGED <<pending, fs, rustfmtOk, written>>

\* multi = MultiAbigen::from_json_files(dir)?, the filesystem enumerating the
\* files of dir in the given order; last.pairs keeps the pairs collected.
MultiAbigen_from_json_files(dir, order, failAt) ==
    /\ ~multi.exists
    /\ pending = <<>>
    /\ LET r == FromJsonFiles(dir, order, failAt)
       IN  /\ multi' = r.multi
           /\ last' = [Rec("MultiAbigen::from_json_files") EXCEPT
                           !.ok = r.ok, !.err = r.err, !.pairs = r.abis]
    /\ UNCHANGED <<pending, fs, rustfmtOk, written>>

\* multi = multi.single_file()
MultiAbigen_single_file ==
    /\ multi.exists
    /\ ~multi.single_file
    /\ multi' = [multi EXCEPT !.single_file = TRUE]
    /\ last' = Rec("MultiAbigen::single_file")
    /\ UNCHANGED <<pending, fs, rustfmtOk, written>>

\* multi.abigens.push(abi) with the unit built last
abigens_push ==
    /\ multi.exists
    /\ pending # <<>>
    /\ multi' = [multi EXCEPT !.abigens = Append(@, Last(pending))]
    /\ pending' = Front(pending)
    /\ last' = Rec("abigens.push")
    /\ UNCHANGED <<fs, rustfmtOk, written>>

\* multi.clone().write_to_module(module)
MultiAbigen_write_to_module(io) ==
    /\ multi.exists
    /\ LET r == WriteToModuleTo(multi, fs, rustfmtOk, io)
       IN  /\ fs' = r.dir
           /\ written' = IF r.ok THEN [valid |-> TRUE, batch |-> multi]
                         ELSE IF r.dir = fs THEN written ELSE NoWritten
           /\ last' = [Rec("MultiAbigen::write_to_module") EXCEPT
                          !.ok = r.ok, !.err = r.err, !.k = r.k, !.arts = r.arts,
                          !.wasEmpty = (Files(fs) = {})]
    /\ UNCHANGED <<pending, multi, rustfmtOk>>

\* multi.clone().ensure_consistent_bindings(module); read_dir may enumerate
\* the fresh files in any order.
MultiAbigen_ensure_consistent_bindings ==
    /\ multi.exists
    /\ LET w == FreshRun(multi, rustfmtOk)
       IN  \E order \in Orders(FilesToCheck(w.dir, fs)) :
               last' = [Rec("MultiAbigen::ensure_consistent_bindings") EXCEPT
                           !.ret = EnsureConsistentBindings(w, fs, order)]
    /\ UNCHANGED <<pending, multi, fs, rustfmtOk, written>>

----------------------------------------------------------------------------
(* Specifications *)

\* Building units and batches, generating them into the module directory and
\* checking the directory against them.
Next ==
    \/ ~multi.exists /\ \E n \in ContractNames, src \in RawSources : Abigen_new(n, src)
    \/ \E b \in BOOLEAN : Abigen_rustfmt(0, b)
    \/ \E sinkOk \in BOOLEAN : ContractBindings_write(sinkOk)
    \/ MultiAbigen_from_abigen
    \/ \E abis \in SeqsUpTo(ContractNames \X RawSources, MaxUnits) : MultiAbigen_new(abis)
    \/ MultiAbigen_single_file
    \/ \E io \in IoPoints(Len(multi.abigens), multi.single_file) :
           MultiAbigen_write_to_module(io)
    \/ MultiAbigen_ensure_consistent_bindings

Spec == Init /\ [][Next]_vars

\* Drift: a batch is written once, then its units are changed or a unit is
\* appended (as the crate's test does through the abigens field), and the
\* directory is checked without being rewritten.  The contract names are two
\* that share a module name.
DriftNames == { <<"A", "b", "C">>, <<"a", "b", "_", "c">> }

NextDrift ==
    \/ \E abis \in SeqsUpTo(DriftNames \X {<<"[", "f", "]">>}, MaxUnits) :
           MultiAbigen_new(abis)
    \/ ~written.valid /\ MultiAbigen_single_file
    \/ ~written.valid /\ MultiAbigen_write_to_module(NoIo)
    \/ written.valid /\ pending = <<>>
          /\ \E n \in DriftNames, src \in RawSources : Abigen_new(n, src)
    \/ written.valid /\ \E w \in 0..MaxUnits, s \in Signatures, a \in Aliases :
           Abigen_add_method_alias(w, s, a)
    \/ written.valid /\ \E w \in 1..MaxUnits, b \in BOOLEAN : Abigen_rustfmt(w, b)
    \/ abigens_push
    \/ written.valid /\ MultiAbigen_ensure_consistent_bindings

SpecDrift == Init /\ [][NextDrift]_vars

\* Batches built from a directory of ABI files, then generated and checked.
NextJson ==
    \/ \E dir \in JsonDirs, failAt \in 0..MaxUnits :
           \E order \in Orders(DOMAIN dir) : MultiAbigen_from_json_files(dir, order, failAt)
    \/ MultiAbigen_single_file
    \/ MultiAbigen_write_to_module(NoIo)
    \/ MultiAbigen_ensure_consistent_bindings

SpecJson == Init /\ [][NextJson]_vars

----------------------------------------------------------------------------
(* Vocabulary of the properties *)

ModuleName(abi) == ToSnakeCase(abi.contract_name)

\* The bytes the artifact of a unit writes when generation and the sink succeed.
UnitText(abi) == BindingsWrite(Generate(abi).bindings, rustfmtOk, TRUE).bytes

\* The export lines of a manifest, in file order.
ExportLines(content) ==
    LET ls == SelectSeq(content, LAMBDA c : c.kind = "line")
    IN  [i \in 1..Len(ls) |-> ls[i].line]

\* The module name an export line declares.
LineModule(line) == SubSeq(line, 2, Len(line) - 1)

\* The batch with its units rearranged by the permutation p.
Permuted(batch, p) ==
    [batch EXCEPT !.abigens = [i \in 1..Len(batch.abigens) |-> batch.abigens[p[i]]]]

WroteOk == last.op = "MultiAbigen::write_to_module" /\ last.ok
Ensured == last.op = "MultiAbigen::ensure_consistent_bindings"

----------------------------------------------------------------------------
(* C1 *)

\* C1: a check of the directory against the batch that write_to_module last
\* wrote into it successfully, with nothing changed in between, returns true.
C1_OracleRoundTrip ==
    (Ensured /\ written.valid /\ written.batch = multi) => last.ret = "true"

\* A batch of two units was written and then checked.
C1_Witness ==
    /\ Ensured /\ written.valid /\ written.batch = multi
    /\ Len(multi.abigens) = 2
    /\ ModuleName(multi.abigens[1]) # ModuleName(multi.abigens[2])
    /\ last.ret = "true"

----------------------------------------------------------------------------
(* C2 *)

\* The change made to the batch since it was written shows in the generated
\* output: a unit was appended, or the bytes written for some unit changed
\* and (in multi-file mode) no later unit writes the same file over it.
DriftVisible ==
    LET W == written.batch.abigens
        M == multi.abigens
    IN  \/ Len(M) > Len(W)
        \/ \E i \in 1..Len(W) :
              /\ UnitText(M[i]) # UnitText(W[i])
              /\ \/ multi.single_file
                 \/ \A j \in (i + 1)..Len(M) : ModuleName(M[j]) # ModuleName(M[i])

\* C2 as stated: after a successful write, a check against a batch in which
\* any unit was mutated, or to which a unit was appended, returns false.
C2_AnyChangeDetected ==
    (Ensured /\ written.valid /\ multi.abigens # written.batch.abigens)
        => last.ret = "false"

\* C2, amended: when the changed batch regenerates without an error, the check
\* returns false exactly when the change is visible in the generated output
\* (DriftVisible), and true when the output is unchanged.
C2_VisibleDriftDetected ==
    (Ensured /\ written.valid /\ last.ret # "panic")
        => (last.ret = "false" <=> DriftVisible)

\* A method alias was added to a unit of the written batch, and the check of
\* the untouched directory returned false.
C2_Witness ==
    /\ Ensured /\ written.valid
    /\ Len(multi.abigens) = Len(written.batch.abigens)
    /\ \E i \in 1..Len(multi.abigens) :
          multi.abigens[i].method_aliases # written.batch.abigens[i].method_aliases
    /\ last.ret = "false"

----------------------------------------------------------------------------
(* C3 *)

\* The manifest a multi-file batch writes, whatever the directory held.
ManifestOf(batch) == WriteToModuleTo(batch, EmptyDir, rustfmtOk, NoIo).dir[ModFile]

\* Every list order of the units of the batch yields the manifest on disk.
SameManifestInEveryOrder ==
    \A p \in Orders(1..Len(multi.abigens)) : ManifestOf(Permuted(multi, p)) = fs[ModFile]

\* C3 as stated: after a successful multi-file write the export lines of
\* mod.rs are in ascending order of module_name, and every list order of the
\* same units produces the same mod.rs.
C3_SortedByModuleName ==
    (WroteOk /\ ~multi.single_file) =>
        LET ls == ExportLines(fs[ModFile])
        IN  /\ \A i, j \in 1..Len(ls) :
                  i < j => StrLeq(LineModule(ls[i]), LineModule(ls[j]))
            /\ SameManifestInEveryOrder

\* C3, amended: after a successful multi-file write mod.rs holds one export
\* line per unit, in ascending byte order of the whole line
\* `pub mod <module_name>;`, and every list order of the same units produces
\* the same mod.rs.
C3_SortedByExportLine ==
    (WroteOk /\ ~multi.single_file) =>
        LET ls == ExportLines(fs[ModFile])
        IN  /\ Len(ls) = Len(multi.abigens)
            /\ \A i, j \in 1..Len(ls) : i < j => StrLeq(ls[i], ls[j])
            /\ SameManifestInEveryOrder

\* Two units were written whose export lines stood in descending order in
\* the batch, so the sort had to exchange them.
C3_Witness ==
    /\ WroteOk /\ ~multi.single_file
    /\ Len(multi.abigens) = 2
    /\ StrLess(ExportLine(ModuleName(multi.abigens[2])),
               ExportLine(ModuleName(multi.abigens[1])))
    /\ Len(ExportLines(fs[ModFile])) = 2

----------------------------------------------------------------------------
(* C4, C5 *)

\* C4 as stated: a successful write_to_module into an empty directory leaves
\* exactly N + 1 files in multi-file mode and exactly one file in single-file
\* mode, for every batch of N units.
C4_FileCount ==
    (WroteOk /\ last.wasEmpty) =>
        Cardinality(Files(fs)) =
            IF multi.single_file THEN 1 ELSE Len(multi.abigens) + 1

\* Two units of the batch derive the same module name.
ModuleNamesCollide ==
    \E i, j \in 1..Len(multi.abigens) :
        i < j /\ ModuleName(multi.abigens[i]) = ModuleName(multi.abigens[j])

\* C5 as stated: a multi-file write_to_module of a batch in which two units
\* derive the same module name does not complete successfully.
C5_CollisionRejected ==
    (last.op = "MultiAbigen::write_to_module" /\ ~multi.single_file
        /\ ModuleNamesCollide) => ~last.ok

----------------------------------------------------------------------------
(* C6 *)

\* The units before position k that write the file f.
WritersBefore(k, f) ==
    {i \in 1..(k - 1) : FileName(ModuleName(multi.abigens[i])) = f}

MaxOf(S) == CHOOSE i \in S : \A j \in S : j <= i

AbortNoRollbackStep ==
    (last'.op = "MultiAbigen::write_to_module" /\ last'.err = "generate"
        /\ ~multi.single_file) =>
        LET k == last'.k
        IN  /\ ~last'.ok
            /\ k \in 1..Len(multi.abigens)
            /\ ~Generate(multi.abigens[k]).ok
            /\ \A i \in 1..(k - 1) : Generate(multi.abigens[i]).ok
            /\ \A f \in FileNames :
                  fs'[f] = IF WritersBefore(k, f) = {} THEN fs[f]
                           ELSE UnitText(multi.abigens[MaxOf(WritersBefore(k, f))])

\* C6: when generate() fails for the unit at position k of a multi-file
\* write_to_module, the call returns that error at the first such unit; the
\* files of the units before k hold what those units wrote, and every other
\* file of the directory, mod.rs included, is as it was before the call.
C6_AbortNoRollback == [][AbortNoRollbackStep]_vars

\* The second unit of a multi-file batch failed to generate: the file of the
\* first unit is on disk and there is no mod.rs.
C6_Witness ==
    /\ last.op = "MultiAbigen::write_to_module" /\ last.err = "generate"
    /\ ~multi.single_file
    /\ last.k = 2
    /\ fs[FileName(ModuleName(multi.abigens[1]))] = UnitText(multi.abigens[1])
    /\ ~Exists(fs, ModFile)

----------------------------------------------------------------------------
(* C7 *)

\* Every file of the fresh directory has a same-named file in dir with the
\* same content.
FreshCovered(fresh, dir) == \A f \in Files(fresh) : Exists(dir, f) /\ dir[f] = fresh[f]

OneDirectionalStep ==
    last'.op = "MultiAbigen::ensure_consistent_bindings" =>
        /\ fs' = fs
        /\ last'.ret \in {"true", "false"}
        /\ last'.ret = "true" <=> FreshCovered(FreshRun(multi, rustfmtOk).dir, fs)

OneDirectionalOrPanicStep ==
    last'.op = "MultiAbigen::ensure_consistent_bindings" =>
        LET w == FreshRun(multi, rustfmtOk)
        IN  /\ fs' = fs
            /\ IF ~w.ok THEN last'.ret = "panic"
               ELSE /\ last'.ret \in {"true", "false"}
                    /\ last'.ret = "true" <=> FreshCovered(w.dir, fs)

----------------------------------------------------------------------------
(* C8 *)

\* C8: MultiAbigen::new over pairs of which at least one source cannot be
\* classified returns an error and no batch; no unit is left for any pair.
C8_FastFailConstruction ==
    (last.op = "MultiAbigen::new"
        /\ \E i \in 1..Len(last.pairs) : ~ParseSource(last.pairs[i][2]).ok)
    => (~last.ok /\ multi = NoMulti /\ pending = <<>>)

\* Two pairs were given, the first source parses and the second does not.
C8_Witness ==
    /\ last.op = "MultiAbigen::new" /\ ~last.ok
    /\ Len(last.pairs) = 2
    /\ ParseSource(last.pairs[1][2]).ok
    /\ ~ParseSource(last.pairs[2][2]).ok

----------------------------------------------------------------------------
(* C9 *)

\* C9: write of an artifact whose rustfmt flag is set succeeds when the
\* formatter fails and the sink accepts the bytes, and the bytes are the
\* unformatted source text; write fails only when the sink fails, and
\* write_to_file only when File::create or the write to the file fails.
C9_FormatterFailureSwallowed ==
    /\ last.op = "ContractBindings::write" =>
          /\ (last.arts[1] /\ last.fmtFailed /\ last.sinkOk) =>
                /\ last.ok
                /\ last.bytes = RawText(Generate(Last(pending)).bindings.tokens)
          /\ last.ok <=> last.sinkOk
          /\ ~last.ok => last.err = "io"
    /\ last.op = "MultiAbigen::write_to_module" => last.err \in {"none", "generate", "io"}
    /\ \A i \in 1..Len(multi.abigens), kd \in {"ok", "create", "write"} :
          LET g == Generate(multi.abigens[i])
          IN  g.ok => (WriteToFile(g.bindings, fs, FileName(ModuleName(multi.abigens[i])),
                                   rustfmtOk, kd).ok <=> kd = "ok")

\* An artifact with the rustfmt flag set was written to a working sink while
\* the formatter failed.
C9_Witness ==
    /\ last.op = "ContractBindings::write"
    /\ last.arts[1] /\ last.fmtFailed /\ last.sinkOk
    /\ last.ok
    /\ last.bytes # <<>>

----------------------------------------------------------------------------
(* C10 *)

\* C10: every unit of a batch built by from_abigen or new has its rustfmt
\* flag set, whatever the flag was before, and so has every artifact that
\* write_to_module generates from the batch.
C10_BatchForcesRustfmt ==
    /\ multi.exists => \A i \in 1..Len(multi.abigens) : multi.abigens[i].rustfmt
    /\ last.op = "MultiAbigen::write_to_module" =>
          /\ \A i \in 1..Len(last.arts) : last.arts[i]
          /\ last.ok => Len(last.arts) = Len(multi.abigens)

\* A unit whose flag had been cleared was handed to from_abigen and holds a
\* set flag in the batch.
C10_Witness ==
    /\ last.op = "MultiAbigen::from_abigen"
    /\ \E i \in 1..Len(multi.abigens) : ~last.arts[i] /\ multi.abigens[i].rustfmt

----------------------------------------------------------------------------
(* C11 *)

\* C11 as stated: the units of a batch built by from_json_files are in
\* ascending order of the names of the files they were read from, whatever
\* order the filesystem enumerated the files in.
C11_AscendingFilenameOrder ==
    (last.op = "MultiAbigen::from_json_files" /\ last.ok) =>
        \A i, j \in 1..Len(multi.abigens) :
            i < j => StrLess(JsonFileName(multi.abigens[i].contract_name),
                             JsonFileName(multi.abigens[j].contract_name))

====
